---- MODULE Spec2Model ----
(***************************************************************************)
(* ai-cli: the streaming response processor of src/src/main.rs             *)
(* (stream_response and the part of main that calls it).                   *)
(*                                                                         *)
(* Text is a sequence of symbols.  Each symbol stands for a fixed run of   *)
(* bytes of the response body:                                             *)
(*   "data:"   the five bytes  data:                                       *)
(*   " "       one space                  "CR"  carriage return            *)
(*   "LF"      the newline byte           "[DONE]"  the bytes [DONE]       *)
(*   "{"       {"choices":[               "}"   ]}                         *)
(*   "<"       {"delta":{"content":"      ">"   "}}                        *)
(*   "N"       {"delta":{"content":null}} ","   the comma between choices  *)
(*   "a", "b"  one ASCII letter of a content string                        *)
(*   "c3","a9" the two bytes of the code point U+00E9, in this order       *)
(*   "event:"  the bytes of another SSE field name                         *)
(* The text of a file, of standard input and of a prompt is a sequence of  *)
(* words ("foo", "bar", "Q", "in"), "Prompt:" being the seven bytes        *)
(* Prompt: of read_input.  A temperature is counted in units of 0.0001.    *)
(* A chunk boundary may fall between any two symbols, so also between the  *)
(* two bytes of the code point.                                            *)
(***************************************************************************)
EXTENDS Integers, Sequences, FiniteSets, TLC

LF == "LF"

CR == "CR"

SP == " "

\* ---------------------------------------------------------------- bounds

\* lines per response body
MaxLines == 2

\* chunks the transport cuts a body into (the last one takes the rest)
MaxChunks == 3

\* longest delay of the endpoint, in seconds, before headers and before the body
MaxDelay == 2

\* largest first-chunk timeout, in seconds, of the timing runs
MaxTimeout == 2

\* longest wait, in seconds, for a chunk after the first
MaxWait == 2

\* ------------------------------------------------------- string helpers

\* str::starts_with
StartsWith(s, p) == Len(s) >= Len(p) /\ SubSeq(s, 1, Len(p)) = p

\* char::is_whitespace, on the symbols of the alphabet
IsWhitespace(c) == c \in {SP, CR, LF}

RECURSIVE TrimStart(_)
TrimStart(s) ==
    IF s # <<>> /\ IsWhitespace(Head(s)) THEN TrimStart(Tail(s)) ELSE s

RECURSIVE TrimEnd(_)
TrimEnd(s) ==
    IF s # <<>> /\ IsWhitespace(s[Len(s)])
    THEN TrimEnd(SubSeq(s, 1, Len(s) - 1))
    ELSE s

\* str::trim
Trim(s) == TrimEnd(TrimStart(s))

\* str::find of one character: the first index, 0 for None
Find(s, c) ==
    IF \E i \in 1..Len(s) : s[i] = c
    THEN CHOOSE i \in 1..Len(s) : s[i] = c /\ \A j \in 1..(i - 1) : s[j] # c
    ELSE 0

\* std::str::from_utf8(..).is_ok(): the lead byte c3 needs its continuation
\* byte a9 right after it inside the same slice, and a9 never stands alone
Utf8Valid(chunk) ==
    \A i \in 1..Len(chunk) :
        /\ chunk[i] = "c3" => (i < Len(chunk) /\ chunk[i + 1] = "a9")
        /\ chunk[i] = "a9" => (i > 1 /\ chunk[i - 1] = "c3")

\* ------------------------------------------------------------ JSON frame

\* the bytes a JSON string body may hold here
ContentBytes == {"a", "b", "c3", "a9"}

\* Option<String> of ChoiceDelta.content
NoContent == [some |-> FALSE, content |-> <<>>]

SomeContent(c) == [some |-> TRUE, content |-> c]

ParseError == [ok |-> FALSE, choices |-> <<>>]

\* one element of "choices" at the head of s: [ok, choice, rest]
ParseChoice(s) ==
    IF s = <<>> THEN [ok |-> FALSE, choice |-> NoContent, rest |-> <<>>]
    ELSE IF Head(s) = "N" THEN [ok |-> TRUE, choice |-> NoContent, rest |-> Tail(s)]
    ELSE IF Head(s) = "<" /\ Find(s, ">") # 0
              /\ \A i \in 2..(Find(s, ">") - 1) : s[i] \in ContentBytes
         THEN [ok |-> TRUE,
               choice |-> SomeContent(SubSeq(s, 2, Find(s, ">") - 1)),
               rest |-> SubSeq(s, Find(s, ">") + 1, Len(s))]
    ELSE [ok |-> FALSE, choice |-> NoContent, rest |-> <<>>]

\* the elements of the array, s being the text between "{" and "}"
RECURSIVE ParseChoices(_, _)
ParseChoices(s, acc) ==
    LET c == ParseChoice(s) IN
    IF ~c.ok THEN ParseError
    ELSE IF c.rest = <<>> THEN [ok |-> TRUE, choices |-> Append(acc, c.choice)]
    ELSE IF Head(c.rest) = "," THEN ParseChoices(Tail(c.rest), Append(acc, c.choice))
    ELSE ParseError

\* serde_json::from_str::<ChatCompletionResponse>
\* (the parser skips the whitespace around the value)
FromStr(data) ==
    LET d == TrimEnd(TrimStart(data)) IN
    IF Len(d) >= 2 /\ Head(d) = "{" /\ d[Len(d)] = "}"
    THEN IF Len(d) = 2 THEN [ok |-> TRUE, choices |-> <<>>]
         ELSE ParseChoices(SubSeq(d, 2, Len(d) - 1), <<>>)
    ELSE ParseError

\* ------------------------------------------------------- line processing

DataPrefix == <<"data:", SP>>

DonePrefix == <<"data:", SP, "[DONE]">>

\* the classification without its [DONE] exclusion
IsDataLineNoDoneCheck(line) == StartsWith(line, DataPrefix)

\* the first condition of the drain loop's body on a trimmed line
IsDataLine(line) == StartsWith(line, DataPrefix) /\ ~StartsWith(line, DonePrefix)

\* &line[6..]
Payload(line) == SubSeq(line, Len(DataPrefix) + 1, Len(line))

\* the print! calls with a test that skips an empty content
RECURSIVE ChoiceWritesSkipEmpty(_)
ChoiceWritesSkipEmpty(choices) ==
    IF choices = <<>> THEN <<>>
    ELSE (IF Head(choices).some /\ Head(choices).content # <<>>
          THEN <<Head(choices).content>> ELSE <<>>)
         \o ChoiceWritesSkipEmpty(Tail(choices))

\* the print! calls of one parsed frame, in the order of the choices
RECURSIVE ChoiceWrites(_)
ChoiceWrites(choices) ==
    IF choices = <<>> THEN <<>>
    ELSE (IF Head(choices).some THEN <<Head(choices).content>> ELSE <<>>)
         \o ChoiceWrites(Tail(choices))

\* the body of the drain loop on one trimmed line: whether the payload went
\* to the JSON parser, whether it parsed, and the writes to standard output
ProcessLine(line) ==
    IF IsDataLine(line) /\ Payload(line) # <<>>
    THEN LET r == FromStr(Payload(line)) IN
         [parsed |-> TRUE, ok |-> r.ok,
          writes |-> IF r.ok THEN ChoiceWrites(r.choices) ELSE <<>>]
    ELSE [parsed |-> FALSE, ok |-> FALSE, writes |-> <<>>]

\* the writes of the drain loop run on buf until no newline is left
RECURSIVE DrainWrites(_)
DrainWrites(buf) ==
    IF Find(buf, LF) = 0 THEN <<>>
    ELSE ProcessLine(Trim(SubSeq(buf, 1, Find(buf, LF) - 1))).writes
         \o DrainWrites(SubSeq(buf, Find(buf, LF) + 1, Len(buf)))

\* what the drain loop leaves in the buffer
RECURSIVE DrainRest(_)
DrainRest(buf) ==
    IF Find(buf, LF) = 0 THEN buf
    ELSE DrainRest(SubSeq(buf, Find(buf, LF) + 1, Len(buf)))

\* the writes of the `while let Some(chunk)` loop on the chunks after the
\* first, buf being the line buffer it starts with
RECURSIVE LaterChunks(_, _)
LaterChunks(chunks, buf) ==
    IF chunks = <<>> THEN <<>>
    ELSE DrainWrites(buf \o Head(chunks))
         \o LaterChunks(Tail(chunks), DrainRest(buf \o Head(chunks)))

\* the writes of stream_response on a stream of one or more valid chunks
\* that ends normally: the first chunk is only appended
StreamWrites(chunks) == LaterChunks(Tail(chunks), Head(chunks))

\* ------------------------------------------------- the endpoint's bodies

\* a data line whose frame has one choice with the content c
Frame(c) == DataPrefix \o <<"{", "<">> \o c \o <<">", "}">>

LineHi == Frame(<<"a">>)

LineAccent == Frame(<<"c3", "a9">>)

LineTwo == DataPrefix \o <<"{", "<", "a", ">", ",", "<", "b", ">", "}">>

LineNull == DataPrefix \o <<"{", "N", "}">>

\* a frame of three choices: content null, content "", content "a"
LineMixed == DataPrefix \o <<"{", "N", ",", "<", ">", ",", "<", "a", ">", "}">>

LineDone == DonePrefix

\* a data line whose JSON is cut short
LineBad == DataPrefix \o <<"{", "<", "b">>

LineBlank == <<>>

LineNoSpace == <<"data:", "{", "<", "a", ">", "}">>

LineSet ==
    {LineHi, LineAccent, LineTwo, LineNull, LineMixed, LineDone, LineBad, LineBlank,
     LineNoSpace}

\* what may follow the last newline of a body
TailSet == {<<>>, LineHi}

\* the bodies of at most n newline-terminated lines
RECURSIVE Terminated(_)
Terminated(n) ==
    IF n = 0 THEN {<<>>}
    ELSE Terminated(n - 1)
         \cup {b \o l \o <<LF>> : b \in Terminated(n - 1), l \in LineSet}

Bodies == {b \o t : b \in Terminated(MaxLines), t \in TailSet}

\* "data: " with nothing after it
LineEmptyPayload == DataPrefix

\* an SSE comment
LineComment == <<":", "a">>

\* another SSE field
LineEvent == <<"event:", SP, "a">>

\* the lines of the bodies that vary the framing
FramingLines ==
    {LineHi, LineDone, LineBlank, LineEmptyPayload, LineComment, LineEvent}

\* a line ends in a newline or in a carriage return and a newline
LineEndings == {<<LF>>, <<CR, LF>>}

\* the bodies of no, one or two lines, each with one of the two endings
FramingBodies ==
    LET ended == {<<>>} \cup {l \o e : l \in FramingLines, e \in LineEndings}
    IN {a \o b : a \in ended, b \in ended}

\* the bodies of the runs that vary the endpoint's delays
TimingBodies == {<<>>, LineHi \o <<LF>>, LineHi \o <<LF>> \o LineHi \o <<LF>>}

\* ----------------------------------------------------- program constants

\* AppConfig::default().timeout_secs
DefaultTimeoutSecs == 300

\* AppConfig::default().temperature, 0.7
DefaultTemperature == 7000

\* the range of validate_temperature, 0.0 and 2.0
MinTemperature == 0

MaxTemperature == 20000

\* the statuses the endpoint answers with
Statuses == {200, 404, 500}

\* a status test that lets the 4xx statuses through
IsSuccessLoose(st) == st \in 200..499

\* StatusCode::is_success
IsSuccess(st) == st \in 200..299

\* ---------------------------------------------------------- configuration

\* Option<T>: None for a string, None for a number, Some(x)
NoStr == [some |-> FALSE, v |-> ""]

NoNum == [some |-> FALSE, v |-> 0]

Some(x) == [some |-> TRUE, v |-> x]

\* AppConfig::default()
DefaultConfig ==
    [model |-> "llama3",
     base_url |-> "http://localhost:11434/v1",
     api_key |-> NoStr,
     default_prompt |-> NoStr,
     temperature |-> Some(DefaultTemperature),
     timeout_secs |-> DefaultTimeoutSecs]

\* the configuration file: absent, absent in a directory that cannot be
\* written, not a TOML document of the AppConfig shape, or such a document
AbsentFile == [state |-> "absent", content |-> DefaultConfig]

UnwritableFile == [state |-> "unwritable", content |-> DefaultConfig]

BadFile == [state |-> "bad", content |-> DefaultConfig]

OkFile(c) == [state |-> "ok", content |-> c]

\* load_config: [ok, config, err, file], file being the file it leaves
LoadConfig(f) ==
    IF f.state = "absent"
    THEN [ok |-> TRUE, config |-> DefaultConfig, err |-> "none",
          file |-> OkFile(DefaultConfig)]
    ELSE IF f.state = "unwritable"
    THEN [ok |-> FALSE, config |-> DefaultConfig, err |-> "ConfigCreate", file |-> f]
    ELSE IF f.state = "bad"
    THEN [ok |-> FALSE, config |-> DefaultConfig, err |-> "ConfigParse", file |-> f]
    ELSE [ok |-> TRUE, config |-> f.content, err |-> "none", file |-> f]

\* a range check that leaves the bounds out
ValidTemperatureExclusive(t) == t > MinTemperature /\ t < MaxTemperature

\* validate_temperature(t).is_ok()
ValidTemperature(t) == t >= MinTemperature /\ t <= MaxTemperature

\* the temperature get_final_config validates: the command line's when
\* given, else the loaded configuration's
ChosenTemperature(c, a) == IF a.temperature.some THEN a.temperature ELSE c.temperature

\* the overrides of get_final_config on a loaded configuration c
Override(c, a) ==
    [model |-> IF a.model.some THEN a.model.v ELSE c.model,
     base_url |-> IF a.base_url.some THEN a.base_url.v ELSE c.base_url,
     api_key |-> IF a.api_key.some THEN a.api_key ELSE c.api_key,
     default_prompt |-> c.default_prompt,
     temperature |-> ChosenTemperature(c, a),
     timeout_secs |-> IF a.timeout.some THEN a.timeout.v ELSE c.timeout_secs]

\* get_final_config: [ok, config, err, file]
FinalConfig(f, a) ==
    LET l == LoadConfig(f) IN
    IF ~l.ok THEN l
    ELSE IF ChosenTemperature(l.config, a).some
            /\ ~ValidTemperature(ChosenTemperature(l.config, a).v)
    THEN [ok |-> FALSE, config |-> DefaultConfig, err |-> "TemperatureOutOfRange",
          file |-> l.file]
    ELSE [ok |-> TRUE, config |-> Override(l.config, a), err |-> "none",
          file |-> l.file]

\* ------------------------------------------------------------------ input

\* a named file: whether it can be opened and read, and its text
GoodFile(t) == [ok |-> TRUE, content |-> t]

MissingFile == [ok |-> FALSE, content |-> <<>>]

\* a file's contribution without the newline after it
FileTextBare(f) == f.content

\* input.push_str(&file_content); input.push('\n')
FileText(f) == f.content \o <<LF>>

\* the loop over args.files: [ok, text]
RECURSIVE ReadFiles(_)
ReadFiles(files) ==
    IF files = <<>> THEN [ok |-> TRUE, text |-> <<>>]
    ELSE IF ~Head(files).ok THEN [ok |-> FALSE, text |-> <<>>]
    ELSE LET r == ReadFiles(Tail(files)) IN
         [ok |-> r.ok, text |-> IF r.ok THEN FileText(Head(files)) \o r.text ELSE <<>>]

\* the text read_input writes to the terminal before it reads it
Banner == <<"Enter the data you'd like the AI to work on (Ctrl+D to submit):">>

\* format!("{} {}\n{}", "Prompt:", prompt, input)
WithPrompt(prompt, text) ==
    IF prompt.some THEN <<"Prompt:", SP>> \o prompt.v \o <<LF>> \o text ELSE text

\* whether read_input reads standard input
ReadsStdin(a) == a.files = <<>>

\* read_input: [ok, text, banner, stdin_read]
ReadInputResult(a, is_tty, sin) ==
    LET f == ReadFiles(a.files) IN
    IF ~f.ok
    THEN [ok |-> FALSE, text |-> <<>>, banner |-> FALSE, stdin_read |-> FALSE]
    ELSE IF ~ReadsStdin(a)
    THEN [ok |-> TRUE, text |-> WithPrompt(a.prompt, f.text), banner |-> FALSE,
          stdin_read |-> FALSE]
    ELSE IF ~sin.ok
    THEN [ok |-> FALSE, text |-> <<>>, banner |-> is_tty, stdin_read |-> TRUE]
    ELSE [ok |-> TRUE, text |-> WithPrompt(a.prompt, f.text \o sin.content),
          banner |-> is_tty, stdin_read |-> TRUE]

\* ---------------------------------------------------------------- request

NoRequest ==
    [built |-> FALSE, model |-> "", content |-> <<>>, stream |-> FALSE,
     temperature |-> NoNum]

\* the ChatCompletionRequest main builds
Request(c, text) ==
    [built |-> TRUE, model |-> c.model, content |-> text, stream |-> TRUE,
     temperature |-> c.temperature]

\* the fields of the serialized request: skip_serializing_if = "Option::is_none"
WireFields(r) ==
    {"model", "messages", "stream"}
        \cup (IF r.temperature.some THEN {"temperature"} ELSE {})

\* --------------------------------------------- the inputs of an invocation

\* no override on the command line, one input file
PlainArgs ==
    [model |-> NoStr, base_url |-> NoStr, api_key |-> NoStr,
     temperature |-> NoNum, timeout |-> NoNum, prompt |-> [some |-> FALSE, v |-> <<>>],
     files |-> <<GoodFile(<<"foo">>)>>]

\* the temperatures tried: -0.0001, 0.0, 0.5, 2.0, 2.0001
Temperatures == {0 - 1, MinTemperature, 5000, MaxTemperature, MaxTemperature + 1}

\* command lines that vary the overrides
ConfigArgs ==
    {[PlainArgs EXCEPT !.model = m, !.base_url = u, !.api_key = k,
                       !.temperature = t, !.timeout = o] :
        m \in {NoStr, Some("cli-model")},
        u \in {NoStr, Some("http://cli/v1")},
        k \in {NoStr, Some("cli-key")},
        t \in {NoNum} \cup {Some(x) : x \in Temperatures},
        o \in {NoNum, Some(1)}}

\* configuration files
ConfigFiles ==
    {AbsentFile, UnwritableFile, BadFile}
        \cup {OkFile([model |-> "file-model", base_url |-> "http://file/v1",
                      api_key |-> k, default_prompt |-> NoStr,
                      temperature |-> t, timeout_secs |-> 2]) :
                 k \in {NoStr, Some("file-key")},
                 t \in {NoNum, Some(MinTemperature), Some(MaxTemperature + 1)}}

\* command lines that vary the input sources
InputArgs ==
    {[PlainArgs EXCEPT !.prompt = p, !.files = f] :
        p \in {[some |-> FALSE, v |-> <<>>], [some |-> TRUE, v |-> <<"Q">>]},
        f \in {<<>>,
               <<GoodFile(<<"foo">>)>>,
               <<GoodFile(<<"foo">>), GoodFile(<<"bar">>)>>,
               <<GoodFile(<<"bar">>), GoodFile(<<"foo">>)>>,
               <<GoodFile(<<"foo">>), MissingFile>>,
               <<MissingFile, GoodFile(<<"bar">>)>>}}

\* standard input: text, or bytes that are not UTF-8
Stdins == {GoodFile(<<"in">>), MissingFile}

\* ------------------------------------------------------------------ state

VARIABLES
    pc,            \* where the invocation stands
    body,          \* the bytes of the response body the endpoint sends
    delay_hdr,     \* seconds the endpoint takes to answer with the headers
    delay_body,    \* seconds from the headers to the first body byte
    args,          \* the command line, as clap parsed it
    file,          \* the configuration file on disk
    tty,           \* whether standard input is a terminal
    stdin,         \* what standard input holds
    config,        \* the AppConfig get_final_config returned
    input,         \* the String read_input returned
    stdin_read,    \* whether standard input was read
    request,       \* the ChatCompletionRequest main built
    status,        \* the status of the response, 0 before there is one
    waited,        \* seconds spent in the await the invocation is blocked in
    pos,           \* bytes of the body the transport has handed over
    incomplete,    \* the line buffer
    chunk_count,   \* chunks taken from the stream
    stdout,        \* the writes to standard output, in order
    log,           \* one record for each line the drain loop has classified
    err            \* the error the invocation ends with

\* what the invocation is given and never changes
env == <<body, delay_hdr, delay_body, args, tty, stdin>>

\* what main holds when it calls stream_response
made == <<file, config, input, stdin_read, request>>

vars ==
    <<pc, env, made, status, waited, pos, incomplete, chunk_count, stdout,
      log, err>>

\* first_chunk_timeout_secs, the last argument of stream_response
timeout_secs == config.timeout_secs

NoErr == [kind |-> "none", code |-> 0, text |-> <<>>]

Failure(kind) == [kind |-> kind, code |-> 0, text |-> <<>>]

\* the state of main before get_final_config
Start ==
    /\ pc = "config"
    /\ config = DefaultConfig
    /\ input = <<>>
    /\ stdin_read = FALSE
    /\ request = NoRequest
    /\ status = 0
    /\ waited = 0
    /\ pos = 0
    /\ incomplete = <<>>
    /\ chunk_count = 0
    /\ stdout = <<>>
    /\ log = <<>>
    /\ err = NoErr

\* an endpoint that answers at once, and the default first-chunk timeout
InitStreams ==
    /\ body \in Bodies
    /\ delay_hdr = 0
    /\ delay_body = 0
    /\ args = PlainArgs
    /\ file = OkFile(DefaultConfig)
    /\ tty = FALSE
    /\ stdin = GoodFile(<<"in">>)
    /\ Start

\* an endpoint that delays, and a --timeout of a few seconds
InitTiming ==
    /\ body \in TimingBodies
    /\ delay_hdr \in 0..MaxDelay
    /\ delay_body \in 0..MaxDelay
    /\ \E t \in 1..MaxTimeout : args = [PlainArgs EXCEPT !.timeout = Some(t)]
    /\ file = OkFile(DefaultConfig)
    /\ tty = FALSE
    /\ stdin = GoodFile(<<"in">>)
    /\ Start

\* command lines and configuration files that vary the configuration
InitConfig ==
    /\ body = LineHi \o <<LF>>
    /\ delay_hdr = 0
    /\ delay_body = 0
    /\ args \in ConfigArgs
    /\ file \in ConfigFiles
    /\ tty = FALSE
    /\ stdin = GoodFile(<<"in">>)
    /\ Start

\* command lines and standard inputs that vary the input
InitInput ==
    /\ body = LineHi \o <<LF>>
    /\ delay_hdr = 0
    /\ delay_body = 0
    /\ args \in InputArgs
    /\ file = OkFile(DefaultConfig)
    /\ tty \in BOOLEAN
    /\ stdin \in Stdins
    /\ Start

\* responses that vary the framing of the lines
InitFraming ==
    /\ body \in FramingBodies
    /\ delay_hdr = 0
    /\ delay_body = 0
    /\ args = PlainArgs
    /\ file = OkFile(DefaultConfig)
    /\ tty = FALSE
    /\ stdin = GoodFile(<<"in">>)
    /\ Start

Init == InitStreams \/ InitTiming \/ InitConfig \/ InitInput \/ InitFraming

\* ---------------------------------------------------------------- actions

\* an Err that leaves stream_response through `?` and then main through `?`
Fail(kind) ==
    /\ pc' = "failed"
    /\ err' = Failure(kind)

\* a timer restarted for every chunk instead
TimerArmedEveryWait == pc \in {"first_wait", "wait"}

\* the first-chunk timer runs: tokio::time::timeout wraps this await only
TimerArmed == pc = "first_wait"

\* the chunk of n bytes the transport hands over next
NextBytes(n) == SubSeq(body, pos + 1, pos + n)

\* the sizes the next chunk may have: any, but the last chunk the bound
\* allows takes the rest of the body or is one that from_utf8 rejects
ChunkSizes ==
    IF chunk_count + 1 < MaxChunks
    THEN 1..(Len(body) - pos)
    ELSE {n \in 1..(Len(body) - pos) :
             n = Len(body) - pos \/ ~Utf8Valid(NextBytes(n))}

\* main: get_final_config(&args).await?
GetFinalConfig ==
    /\ pc = "config"
    /\ LET r == FinalConfig(file, args) IN
          /\ file' = r.file
          /\ IF r.ok
             THEN /\ config' = r.config
                  /\ pc' = "input"
                  /\ err' = err
             ELSE /\ config' = config
                  /\ Fail(r.err)
    /\ UNCHANGED <<env, input, stdin_read, request, status, waited, pos,
                   incomplete, chunk_count, stdout, log>>

\* main: read_input(&args).await?
ReadInput ==
    /\ pc = "input"
    /\ LET r == ReadInputResult(args, tty, stdin) IN
          /\ stdout' = IF r.banner THEN Append(stdout, Banner) ELSE stdout
          /\ stdin_read' = r.stdin_read
          /\ IF r.ok
             THEN /\ input' = r.text
                  /\ pc' = "build"
                  /\ err' = err
             ELSE /\ input' = input
                  /\ Fail("Input")
    /\ UNCHANGED <<env, file, config, request, status, waited, pos, incomplete,
                   chunk_count, log>>

\* main: the ChatCompletionRequest, then the call of stream_response
BuildRequest ==
    /\ pc = "build"
    /\ request' = Request(config, input)
    /\ pc' = "send"
    /\ UNCHANGED <<env, file, config, input, stdin_read, status, waited, pos,
                   incomplete, chunk_count, stdout, log, err>>

\* request_builder.send().await returns a response with a 2xx status; the
\* byte stream is opened and the wait for the first chunk begins
SendRequestOk ==
    /\ pc = "send"
    /\ waited = delay_hdr
    /\ \E st \in Statuses : IsSuccess(st) /\ status' = st
    /\ pc' = "first_wait"
    /\ waited' = 0
    /\ UNCHANGED <<env, made, pos, incomplete,
                   chunk_count, stdout, log, err>>

\* words of the message that replaces a body response.text() could not read
Unreadable == <<"Unable to read error response body">>

\* a status that is not 2xx: the whole body is read as text and returned in
\* the error
HttpStatusError ==
    /\ pc = "send"
    /\ waited = delay_hdr
    /\ \E st \in Statuses, t \in {body, Unreadable} :
          /\ ~IsSuccess(st)
          /\ status' = st
          /\ err' = [kind |-> "HttpStatus", code |-> st, text |-> t]
    /\ pc' = "failed"
    /\ waited' = 0
    /\ UNCHANGED <<env, made, pos, incomplete,
                   chunk_count, stdout, log>>

\* send() fails: "Failed to send request"
SendFailed ==
    /\ pc = "send"
    /\ Fail("SendFailed")
    /\ UNCHANGED <<env, made, status, waited, pos,
                   incomplete, chunk_count, stdout, log>>

\* the timeout around the first stream.next() elapses
FirstChunkTimeout ==
    /\ TimerArmed
    /\ waited >= timeout_secs
    /\ Fail("FirstChunkTimeout")
    /\ UNCHANGED <<env, made, status, waited, pos,
                   incomplete, chunk_count, stdout, log>>

\* the first chunk arrives: it is decoded and appended, nothing more
FirstChunk ==
    /\ pc = "first_wait"
    /\ waited >= delay_body
    /\ \E n \in ChunkSizes :
          /\ pos' = pos + n
          /\ IF Utf8Valid(NextBytes(n))
             THEN /\ incomplete' = incomplete \o NextBytes(n)
                  /\ pc' = "wait"
                  /\ err' = err
             ELSE /\ incomplete' = incomplete
                  /\ Fail("Utf8")
    /\ chunk_count' = chunk_count + 1
    /\ waited' = 0
    /\ UNCHANGED <<env, made, status, stdout, log>>

\* the first item of the stream is an Err: "Failed to read response chunk"
FirstChunkError ==
    /\ pc = "first_wait"
    /\ chunk_count' = chunk_count + 1
    /\ Fail("Transport")
    /\ UNCHANGED <<env, made, status, waited, pos,
                   incomplete, stdout, log>>

\* an empty stream taken for a normal end
EmptyStreamOk ==
    /\ pc = "first_wait"
    /\ waited >= delay_body
    /\ pos = Len(body)
    /\ pc' = "ok"
    /\ UNCHANGED <<env, made, status, waited, pos,
                   incomplete, chunk_count, stdout, log, err>>

\* the stream ends before it gave any chunk
EmptyStream ==
    /\ pc = "first_wait"
    /\ waited >= delay_body
    /\ pos = Len(body)
    /\ Fail("EmptyStream")
    /\ UNCHANGED <<env, made, status, waited, pos,
                   incomplete, chunk_count, stdout, log>>

\* a later chunk that is dropped, and the loop goes on, when it is not UTF-8
NextChunkSkipInvalid ==
    /\ pc = "wait"
    /\ \E n \in ChunkSizes :
          /\ pos' = pos + n
          /\ incomplete' = IF Utf8Valid(NextBytes(n))
                           THEN incomplete \o NextBytes(n)
                           ELSE incomplete
    /\ pc' = "drain"
    /\ chunk_count' = chunk_count + 1
    /\ waited' = 0
    /\ UNCHANGED <<env, made, status, stdout, log, err>>

\* a later chunk arrives: it is decoded and appended, and the drain loop starts
NextChunk ==
    /\ pc = "wait"
    /\ \E n \in ChunkSizes :
          /\ pos' = pos + n
          /\ IF Utf8Valid(NextBytes(n))
             THEN /\ incomplete' = incomplete \o NextBytes(n)
                  /\ pc' = "drain"
                  /\ err' = err
             ELSE /\ incomplete' = incomplete
                  /\ Fail("Utf8")
    /\ chunk_count' = chunk_count + 1
    /\ waited' = 0
    /\ UNCHANGED <<env, made, status, stdout, log>>

\* a later item of the stream is an Err
NextChunkError ==
    /\ pc = "wait"
    /\ chunk_count < MaxChunks
    /\ chunk_count' = chunk_count + 1
    /\ Fail("Transport")
    /\ UNCHANGED <<env, made, status, waited, pos,
                   incomplete, stdout, log>>

\* a turn of the drain loop that cuts the buffer at pos, not after it
DrainLineKeepNewline ==
    /\ pc = "drain"
    /\ Find(incomplete, LF) # 0
    /\ LET p == Find(incomplete, LF)
           line == Trim(SubSeq(incomplete, 1, p - 1))
           r == ProcessLine(line)
       IN /\ stdout' = stdout \o r.writes
          /\ log' = Append(log, [line |-> line, parsed |-> r.parsed,
                                 ok |-> r.ok, writes |-> r.writes])
          /\ incomplete' = SubSeq(incomplete, p, Len(incomplete))
    /\ UNCHANGED <<pc, env, made, status, waited, pos,
                   chunk_count, err>>

\* one turn of `while let Some(pos) = incomplete.find('\n')`
DrainLine ==
    /\ pc = "drain"
    /\ Find(incomplete, LF) # 0
    /\ LET p == Find(incomplete, LF)
           line == Trim(SubSeq(incomplete, 1, p - 1))
           r == ProcessLine(line)
       IN /\ stdout' = stdout \o r.writes
          /\ log' = Append(log, [line |-> line, parsed |-> r.parsed,
                                 ok |-> r.ok, writes |-> r.writes])
          /\ incomplete' = SubSeq(incomplete, p + 1, Len(incomplete))
    /\ UNCHANGED <<pc, env, made, status, waited, pos,
                   chunk_count, err>>

\* the drain loop finds no newline and the outer loop asks for the next chunk
DrainExit ==
    /\ pc = "drain"
    /\ Find(incomplete, LF) = 0
    /\ pc' = "wait"
    /\ UNCHANGED <<env, made, status, waited, pos,
                   incomplete, chunk_count, stdout, log, err>>

\* an end of stream that runs the rest of the buffer through the line processing
EndOfStreamFlushTail ==
    /\ pc = "wait"
    /\ pos = Len(body)
    /\ pc' = "ok"
    /\ LET line == Trim(incomplete)
           r == ProcessLine(line)
       IN /\ stdout' = stdout \o r.writes
          /\ log' = IF incomplete = <<>> THEN log
                    ELSE Append(log, [line |-> line, parsed |-> r.parsed,
                                      ok |-> r.ok, writes |-> r.writes])
    /\ incomplete' = <<>>
    /\ UNCHANGED <<env, made, status, waited, pos,
                   chunk_count, err>>

\* stream.next() gives None: the loop ends and stream_response returns Ok(())
EndOfStream ==
    /\ pc = "wait"
    /\ pos = Len(body)
    /\ pc' = "ok"
    /\ UNCHANGED <<env, made, status, waited, pos,
                   incomplete, chunk_count, stdout, log, err>>

\* a main that returns without the println!()
PrintNewlineSkipped ==
    /\ pc = "ok"
    /\ pc' = "done"
    /\ UNCHANGED <<env, made, status, waited, pos, incomplete, chunk_count,
                   stdout, log, err>>

\* main: println!() after stream_response returned Ok, then Ok(())
PrintNewline ==
    /\ pc = "ok"
    /\ stdout' = Append(stdout, <<LF>>)
    /\ pc' = "done"
    /\ UNCHANGED <<env, made, status, waited, pos,
                   incomplete, chunk_count, log, err>>

\* a second passes while the invocation is blocked in an await
Tick ==
    /\ \/ pc = "send" /\ waited < delay_hdr
       \/ pc = "first_wait" /\ waited < delay_body /\ waited < timeout_secs
       \/ pc = "wait" /\ waited < MaxWait
    /\ waited' = waited + 1
    /\ UNCHANGED <<pc, env, made, status, pos,
                   incomplete, chunk_count, stdout, log, err>>

Next ==
    \/ GetFinalConfig
    \/ ReadInput
    \/ BuildRequest
    \/ SendRequestOk
    \/ HttpStatusError
    \/ SendFailed
    \/ FirstChunkTimeout
    \/ FirstChunk
    \/ FirstChunkError
    \/ EmptyStream
    \/ NextChunk
    \/ NextChunkError
    \/ DrainLine
    \/ DrainExit
    \/ EndOfStream
    \/ PrintNewline
    \/ Tick

Spec == Init /\ [][Next]_vars

\* the drain loop is straight-line code between two awaits: once entered it
\* takes its next turn, or leaves, without waiting for anything
\* (a turn is told by what it does to the buffer: it cuts it after the
\* first newline)
DrainTurn ==
    /\ pc = "drain"
    /\ Find(incomplete, LF) # 0
    /\ incomplete' = SubSeq(incomplete, Find(incomplete, LF) + 1, Len(incomplete))
    /\ pc' = pc

\* the invocations under which the loop's progress is followed: all but
\* the large family of bodies, which varies what is in the lines
LiveInit == InitTiming \/ InitConfig \/ InitInput \/ InitFraming

LiveSpec ==
    /\ LiveInit
    /\ [][Next]_vars
    /\ WF_<<pc, incomplete>>(DrainTurn)
    /\ WF_vars(DrainExit)

\* ------------------------------------------------ what the claims speak of

\* the lines of s that end in a newline, without it
RECURSIVE CompleteLines(_)
CompleteLines(s) ==
    IF Find(s, LF) = 0 THEN <<>>
    ELSE <<SubSeq(s, 1, Find(s, LF) - 1)>>
         \o CompleteLines(SubSeq(s, Find(s, LF) + 1, Len(s)))

\* the text after the last newline of s
RECURSIVE UnterminatedTail(_)
UnterminatedTail(s) ==
    IF Find(s, LF) = 0 THEN s
    ELSE UnterminatedTail(SubSeq(s, Find(s, LF) + 1, Len(s)))

\* the deltas of a sequence of lines, in order
RECURSIVE LinesDeltas(_)
LinesDeltas(lines) ==
    IF lines = <<>> THEN <<>>
    ELSE ProcessLine(Trim(Head(lines))).writes \o LinesDeltas(Tail(lines))

\* the deltas of every newline-terminated line of s
Decoded(s) == LinesDeltas(CompleteLines(s))

\* the text a sequence of writes leaves on standard output
RECURSIVE Flatten(_)
Flatten(writes) ==
    IF writes = <<>> THEN <<>> ELSE Head(writes) \o Flatten(Tail(writes))

\* the writes of the lines classified so far
RECURSIVE LogWrites(_)
LogWrites(l) ==
    IF l = <<>> THEN <<>> ELSE Head(l).writes \o LogWrites(Tail(l))

\* a complete data line whose payload the JSON parser rejects
IsMalformed(raw) ==
    /\ IsDataLine(Trim(raw))
    /\ Payload(Trim(raw)) # <<>>
    /\ ~FromStr(Payload(Trim(raw))).ok

\* a complete data line that carries at least one delta
IsValidData(raw) == ProcessLine(Trim(raw)).writes # <<>>

IsSuffix(t, s) == Len(t) <= Len(s) /\ SubSeq(s, Len(s) - Len(t) + 1, Len(s)) = t

Returned == pc \in {"ok", "done"}

\* the writes to standard output since stream_response was called
Response == SelectSeq(stdout, LAMBDA w : w # Banner)

\* ------------------------------------------------------------------ claims

\* C1 (as claimed): chunk-boundary independence.  When stream_response
\* returns Ok, the deltas it wrote are the ones it writes for the same body
\* delivered unsplit, as one chunk.
C1_ChunkBoundaryIndependence ==
    pc = "ok" => Response = StreamWrites(<<body>>)

\* C2 (as claimed): completeness.  When the body ends normally after one or
\* more chunks, the text on standard output is the concatenation, in stream
\* order, of the contents of every newline-terminated valid data line of
\* the whole body.
C2_CompleteOutput ==
    (pc = "ok" /\ chunk_count >= 1) => Flatten(Response) = Flatten(Decoded(body))

\* C3 (as claimed): low latency.  Whenever the processor waits for another
\* chunk, the deltas of all complete lines received so far are on standard
\* output.
C3_EmittedBeforeNextChunk ==
    pc = "wait" => Response = Decoded(SubSeq(body, 1, pos))

\* C4: once a chunk has been received no timeout aborts the invocation: the
\* timer is armed only while no chunk has been received, and an invocation
\* that failed with FirstChunkTimeout has received no chunk.
C4_NoTimeoutAfterFirstChunk ==
    /\ TimerArmed => chunk_count = 0
    /\ err.kind = "FirstChunkTimeout" => chunk_count = 0

\* C4 witness: the invocation has waited for a later chunk for longer than
\* the first-chunk timeout and is still waiting.
C4_Witness ==
    /\ pc = "wait"
    /\ chunk_count >= 1
    /\ waited > timeout_secs

\* C5 (as claimed): an endpoint whose first byte comes later than the
\* first-chunk timeout never gets its body read, the invocation does not
\* wait for the late byte; an endpoint whose first byte comes sooner than
\* the timeout produces no timeout.  (The endpoint whose first body byte
\* comes at the very second the timer elapses is left aside: there either
\* may win.)
C5_FirstByteBounded ==
    /\ (delay_hdr + delay_body > timeout_secs /\ delay_body # timeout_secs)
          => pc \notin {"wait", "drain", "ok", "done"}
    /\ delay_hdr + delay_body < timeout_secs
          => err.kind # "FirstChunkTimeout"

\* C6 (as claimed): a body that is valid UTF-8 never makes the invocation
\* fail with the UTF-8 decoding error, wherever the chunk boundaries fall.
C6_MidCodepointReassembled ==
    Utf8Valid(body) => err.kind # "Utf8"

\* C7 (as claimed): when stream_response returns Ok, the deltas of the
\* lines that follow a malformed data line are the last ones written: every
\* valid data line after it has produced its delta.
C7_ValidAfterMalformed ==
    pc = "ok" =>
        \A i \in 1..Len(CompleteLines(body)) :
            IsMalformed(CompleteLines(body)[i]) =>
                IsSuffix(LinesDeltas(SubSeq(CompleteLines(body), i + 1,
                                            Len(CompleteLines(body)))),
                         Response)

\* C8: a line equal to data: [DONE] is never handed to the JSON parser, so
\* it raises no decode error, and it writes no delta.
C8_DoneNeverParsed ==
    \A k \in 1..Len(log) :
        log[k].line = DonePrefix =>
            /\ ~log[k].parsed
            /\ log[k].writes = <<>>

\* C8 witness: the marker was classified as the second line of a body, and
\* stream_response returned.
C8_Witness ==
    /\ pc = "ok"
    /\ Len(log) = 2
    /\ log[2].line = DonePrefix

C10_EmptyStreamFails ==
    /\ err.kind = "EmptyStream" =>
          /\ pc = "failed"
          /\ Response = <<>>
          /\ chunk_count = 0
    /\ Returned => chunk_count >= 1

\* C10 witness: the body was empty and the invocation failed with EmptyStream.
C10_Witness ==
    /\ body = <<>>
    /\ pc = "failed"
    /\ err.kind = "EmptyStream"

\* the deltas written since stream_response was called
Deltas == SelectSeq(Response, LAMBDA w : w # <<LF>>)

\* C11 (as claimed): after a response whose status is not 2xx the
\* invocation has failed with an error that carries the status and the
\* response body, no chunk was read and nothing was written.
C11_HttpErrorCarriesBody ==
    (status # 0 /\ status \notin 200..299) =>
        /\ pc = "failed"
        /\ err = [kind |-> "HttpStatus", code |-> status, text |-> body]
        /\ chunk_count = 0
        /\ pos = 0
        /\ log = <<>>
        /\ Response = <<>>

\* C11 (amended): the same, the error carrying the response body or, when
\* the body could not be read, the text that stands in for it.
C11_HttpErrorNoStreaming ==
    (status # 0 /\ status \notin 200..299) =>
        /\ pc = "failed"
        /\ err.kind = "HttpStatus"
        /\ err.code = status
        /\ err.text \in {body, Unreadable}
        /\ chunk_count = 0
        /\ pos = 0
        /\ log = <<>>
        /\ Response = <<>>

\* C11 witness: a 500 response whose body is a valid data line, read in full
\* into the error.
C11_Witness ==
    /\ status = 500
    /\ body = LineHi \o <<LF>>
    /\ err.text = body
    /\ pc = "failed"

\* the defaults the claims name: temperature and API key unset
ClaimedDefaults ==
    [model |-> "llama3",
     base_url |-> "http://localhost:11434/v1",
     api_key |-> NoStr,
     default_prompt |-> NoStr,
     temperature |-> NoNum,
     timeout_secs |-> 300]

\* whether the configuration file f gives a configuration
Supplies(f) == f.state = "ok"

\* C12 (as claimed): when neither the command line nor a configuration file
\* supplies a temperature, the first run with no file included, the
\* configuration get_final_config returns has no temperature and the request
\* built from it has no temperature field; the built-in defaults have no
\* temperature and a timeout of 300 seconds.
C12_TemperatureStaysUnset ==
    [][/\ (/\ pc = "config"
           /\ pc' = "input"
           /\ ~args.temperature.some
           /\ ~(Supplies(file) /\ file.content.temperature.some))
          => ~config'.temperature.some
       /\ (pc = "build" /\ ~config.temperature.some)
          => "temperature" \notin WireFields(request')
       /\ DefaultConfig.timeout_secs = 300]_vars

\* the temperature that would become effective: the command line's when
\* given, else the file's, else the one of the configuration loaded instead
WouldBeTemperature ==
    IF args.temperature.some THEN args.temperature
    ELSE LoadConfig(file).config.temperature

\* C13: get_final_config fails when the temperature that would become
\* effective is below 0.0 or above 2.0 and accepts it otherwise, 0.0 and 2.0
\* included; no request is built with a temperature outside the range.
C13_TemperatureValidated ==
    /\ [][(pc = "config" /\ LoadConfig(file).ok) =>
            IF WouldBeTemperature.some
               /\ (WouldBeTemperature.v < 0 \/ WouldBeTemperature.v > 20000)
            THEN pc' = "failed" /\ err'.kind = "TemperatureOutOfRange"
            ELSE pc' = "input" /\ config'.temperature = WouldBeTemperature]_vars
    /\ [](request.temperature.some => request.temperature.v \in 0..20000)

\* C13 witness: the bound 2.0 given on the command line was accepted and is
\* in the request.
C13_Witness ==
    /\ args.temperature = Some(MaxTemperature)
    /\ request.built
    /\ request.temperature = Some(MaxTemperature)

\* C14 (as claimed): each field of the configuration get_final_config
\* returns is the command line's value when given, else the file's when the
\* file supplies it, else the built-in default.
C14_Precedence ==
    [][(pc = "config" /\ pc' = "input") =>
        /\ config'.model =
              IF args.model.some THEN args.model.v
              ELSE IF Supplies(file) THEN file.content.model
              ELSE ClaimedDefaults.model
        /\ config'.base_url =
              IF args.base_url.some THEN args.base_url.v
              ELSE IF Supplies(file) THEN file.content.base_url
              ELSE ClaimedDefaults.base_url
        /\ config'.api_key =
              IF args.api_key.some THEN args.api_key
              ELSE IF Supplies(file) /\ file.content.api_key.some
                   THEN file.content.api_key
              ELSE ClaimedDefaults.api_key
        /\ config'.temperature =
              IF args.temperature.some THEN args.temperature
              ELSE IF Supplies(file) /\ file.content.temperature.some
                   THEN file.content.temperature
              ELSE ClaimedDefaults.temperature
        /\ config'.timeout_secs =
              IF args.timeout.some THEN args.timeout.v
              ELSE IF Supplies(file) THEN file.content.timeout_secs
              ELSE ClaimedDefaults.timeout_secs]_vars

\* the contents of the files, each followed by one newline
RECURSIVE Joined(_)
Joined(files) ==
    IF files = <<>> THEN <<>>
    ELSE Head(files).content \o <<LF>> \o Joined(Tail(files))

\* read_input has returned Ok
InputRead == pc \notin {"config", "input", "failed"}

\* C15: with files named, standard input is never read; a file that cannot
\* be read makes read_input fail; otherwise the input is the files'
\* contents in the order given, each followed by one newline, after
\* "Prompt: <text>\n" when a prompt is given ("foo", "bar" give
\* "foo\nbar\n", with the prompt "Q" "Prompt: Q\nfoo\nbar\n").
C15_InputAggregation ==
    args.files # <<>> =>
        /\ ~stdin_read
        /\ (\E i \in 1..Len(args.files) : ~args.files[i].ok) => ~InputRead
        /\ (\A i \in 1..Len(args.files) : args.files[i].ok) => err.kind # "Input"
        /\ InputRead =>
              /\ input = (IF args.prompt.some
                          THEN <<"Prompt:", SP>> \o args.prompt.v \o <<LF>>
                          ELSE <<>>) \o Joined(args.files)
              /\ (args.files = <<GoodFile(<<"foo">>), GoodFile(<<"bar">>)>>
                  /\ ~args.prompt.some)
                    => input = <<"foo", LF, "bar", LF>>
              /\ (args.files = <<GoodFile(<<"foo">>), GoodFile(<<"bar">>)>>
                  /\ args.prompt = [some |-> TRUE, v |-> <<"Q">>])
                    => input = <<"Prompt:", SP, "Q", LF, "foo", LF, "bar", LF>>

\* C15 witness: the files "foo" and "bar" with the prompt "Q" were read, on
\* a terminal, and the request was built from them.
C15_Witness ==
    /\ args.files = <<GoodFile(<<"foo">>), GoodFile(<<"bar">>)>>
    /\ args.prompt.some
    /\ tty
    /\ request.built
    /\ request.content = <<"Prompt:", SP, "Q", LF, "foo", LF, "bar", LF>>

\* the println!() writes on standard output
Newlines == SelectSeq(stdout, LAMBDA w : w = <<LF>>)

\* C16: the trailing newline is on standard output exactly when the
\* invocation has succeeded, once, as the last write; an invocation that
\* failed ended with an error and printed no trailing newline.
C16_TrailingNewline ==
    /\ Len(Newlines) = (IF pc = "done" THEN 1 ELSE 0)
    /\ pc = "done" => (stdout[Len(stdout)] = <<LF>> /\ err = NoErr)
    /\ pc = "failed" => err.kind # "none"

\* C16 witness: the invocation succeeded after it wrote two deltas and then
\* the newline.
C16_Witness ==
    /\ pc = "done"
    /\ Len(Deltas) = 2
    /\ stdout = Deltas \o <<<<LF>>>>

\* C17 (as claimed): whenever the decoder waits for the next chunk or the
\* end of the stream, the line buffer holds no newline.
C17_NoNewlineWhileWaiting ==
    pc = "wait" => Find(incomplete, LF) = 0

\* the [DONE] marker has been consumed
DoneConsumed == \E k \in 1..Len(log) : log[k].line = DonePrefix

\* C18 (as claimed): once the [DONE] marker has been consumed, nothing but
\* the end of the transport (or its failure) ends the decoding, and whenever
\* the decoder waits or has ended, every complete line received, the ones
\* after the marker included, has given its deltas.
C18_DoneDoesNotTerminate ==
    DoneConsumed =>
        /\ pc = "failed" => err.kind = "Transport"
        /\ Returned => pos = Len(body)
        /\ pc \in {"wait", "ok", "done", "failed"}
              => Deltas = Decoded(SubSeq(body, 1, pos))

\* the choices of the frame on a classified line
ChoicesOf(line) == FromStr(Payload(line)).choices

\* C19 (as claimed): for a successfully parsed frame the number of writes
\* is the number of its choices whose content is present and not empty.
C19_OneDeltaPerNonEmptyContent ==
    \A k \in 1..Len(log) :
        log[k].ok =>
            Len(log[k].writes) =
                Cardinality({i \in 1..Len(ChoicesOf(log[k].line)) :
                                /\ ChoicesOf(log[k].line)[i].some
                                /\ ChoicesOf(log[k].line)[i].content # <<>>})

\* C19 (amended): for a successfully parsed frame the number of writes is
\* the number of its choices whose content is present, the empty string
\* included; a choice whose content is absent or null gives none, and the
\* text written is the one of the contents that are not empty.
C19_OneWritePerPresentContent ==
    \A k \in 1..Len(log) :
        log[k].ok =>
            /\ Len(log[k].writes) =
                  Cardinality({i \in 1..Len(ChoicesOf(log[k].line)) :
                                  ChoicesOf(log[k].line)[i].some})
            /\ Flatten(log[k].writes) =
                  Flatten(SelectSeq(log[k].writes, LAMBDA w : w # <<>>))

\* C19 witness: the frame with a null, an empty and a non-empty content was
\* parsed and gave two writes, the first of them empty.
C19_Witness ==
    \E k \in 1..Len(log) :
        /\ log[k].line = LineMixed
        /\ log[k].ok
        /\ log[k].writes = <<<<>>, <<"a">>>>

\* the contents present in a sequence of choices, in its order
PresentContents(choices) ==
    LET present == SelectSeq(choices, LAMBDA c : c.some)
    IN [i \in 1..Len(present) |-> present[i].content]

\* C20 (as claimed): when stream_response returns Ok, every complete data
\* line of the body whose frame has several contents has given them as
\* separate writes in the order of the array, and the writes on standard
\* output are those of the lines in the order of the lines, so all of them
\* come before any delta of a later line.
C20_ChoicesInOrder ==
    /\ Deltas = LogWrites(log)
    /\ Returned =>
          \A i \in 1..Len(CompleteLines(body)) :
              LET line == Trim(CompleteLines(body)[i])
              IN (/\ IsDataLine(line)
                  /\ FromStr(Payload(line)).ok
                  /\ Len(PresentContents(ChoicesOf(line))) > 1)
                 => \E k \in 1..Len(log) :
                       /\ log[k].line = line
                       /\ log[k].writes = PresentContents(ChoicesOf(line))

\* C21 (as claimed): a classified line that does not start with "data: "
\* went to no parser and wrote nothing, and when stream_response returns Ok,
\* every complete line of the body that, trimmed, does not start with
\* "data: " has left the buffer and the lines after it have given their
\* deltas.
C21_NonDataLinesIgnored ==
    /\ \A k \in 1..Len(log) :
          ~StartsWith(log[k].line, DataPrefix)
              => (~log[k].parsed /\ log[k].writes = <<>>)
    /\ Returned =>
          \A i \in 1..Len(CompleteLines(body)) :
              ~StartsWith(Trim(CompleteLines(body)[i]), DataPrefix) =>
                  /\ Find(incomplete, LF) = 0
                  /\ IsSuffix(LinesDeltas(SubSeq(CompleteLines(body), i + 1,
                                                 Len(CompleteLines(body)))),
                              Deltas)

\* the same text with newline-only line endings
StripCR(s) == SelectSeq(s, LAMBDA c : c # CR)

\* every line of s ends in a carriage return and a newline
AllCrlf(s) ==
    /\ Find(s, LF) # 0
    /\ \A i \in 1..Len(s) : s[i] = LF => (i > 1 /\ s[i - 1] = CR)

\* the ways to deliver s in at most n chunks, none of them empty
RECURSIVE Chunkings(_, _)
Chunkings(s, n) ==
    IF s = <<>> \/ n = 0 THEN {}
    ELSE {<<s>>}
         \cup UNION {{<<SubSeq(s, 1, i)>> \o c :
                         c \in Chunkings(SubSeq(s, i + 1, Len(s)), n - 1)} :
                     i \in 1..(Len(s) - 1)}

\* the chunks of the same delivery with newline-only endings: the carriage
\* returns are gone, and so is a chunk that held nothing else
SameWithLf(cs) ==
    SelectSeq([i \in 1..Len(cs) |-> StripCR(cs[i])], LAMBDA c : c # <<>>)

\* C22 (as claimed): a body whose lines all end in a carriage return and a
\* newline, delivered in chunks, gives the deltas that the same body with
\* newline-only endings gives when it is delivered cut at the same places.
C22_CrlfTolerance ==
    (pc = "config" /\ AllCrlf(body)) =>
        \A cs \in Chunkings(body, MaxChunks) :
            StreamWrites(cs) = StreamWrites(SameWithLf(cs))

\* an item of the stream is taken: a chunk of bytes, or an Err
ItemTaken == pc \in {"first_wait", "wait"} /\ chunk_count' = chunk_count + 1

\* C23: an item of the stream that is a read error, or a chunk that is not
\* valid UTF-8, whether the first or a later one, ends the invocation with
\* an error; the step that fails and every step after it leave standard
\* output as it was; a data line whose JSON does not parse fails nothing.
C23_AbortOnStreamErrors ==
    /\ [][/\ (ItemTaken /\ pos' = pos)
             => (pc' = "failed" /\ err'.kind = "Transport")
          /\ (ItemTaken /\ pos' # pos /\ ~Utf8Valid(SubSeq(body, pos + 1, pos')))
             => (pc' = "failed" /\ err'.kind = "Utf8")
          /\ (pc' = "failed" /\ err'.kind \in {"Transport", "Utf8"})
             => stdout' = stdout
          /\ pc = "failed" => stdout' = stdout
          /\ pc = "failed" => (pc' = "failed" /\ err' = err)
          /\ (Len(log') > Len(log) /\ log'[Len(log')].parsed
              /\ ~log'[Len(log')].ok)
             => (pc' = "drain" /\ err' = NoErr)]_vars
    /\ [](err.kind \in {"Transport", "Utf8"} => pc = "failed")

\* C23 witness: the third chunk was not valid UTF-8 on its own; the
\* invocation has failed and the delta written before is on standard output.
C23_Witness ==
    /\ pc = "failed"
    /\ err.kind = "Utf8"
    /\ chunk_count = MaxChunks
    /\ Deltas = <<<<"a">>>>
    /\ stdout = Deltas

\* the received text the drain loop has cut from the buffer
Drained == SubSeq(body, 1, pos - Len(incomplete))

\* C24: a turn of the drain loop cuts the buffer after the newline it
\* found, so the buffer gets shorter by at least one and holds one complete
\* line less, and classifies that one line; the lines classified are the
\* lines of the text cut so far, each once and in order; and the loop, once
\* entered, comes to a buffer with no newline and hands over to the wait for
\* the next item of the stream, where an end or an error returns at once.
C24_DrainLoopTerminates ==
    /\ [][(pc = "drain" /\ Find(incomplete, LF) # 0) =>
             /\ Len(incomplete') < Len(incomplete)
             /\ Len(CompleteLines(incomplete')) = Len(CompleteLines(incomplete)) - 1
             /\ Len(log') = Len(log) + 1
             /\ log'[Len(log')].line = Trim(CompleteLines(incomplete)[1])]_vars
    /\ [](err.kind # "Utf8" =>
             /\ Len(log) = Len(CompleteLines(Drained))
             /\ \A k \in 1..Len(log) :
                   log[k].line = Trim(CompleteLines(Drained)[k]))
    /\ [](pc = "wait" => (chunk_count > 1 => Find(incomplete, LF) = 0))
    /\ (pc = "drain") ~> (pc = "wait" /\ Find(incomplete, LF) = 0)
    /\ [][(pc = "wait" /\ pc' # "wait") => pc' \in {"drain", "ok", "failed"}]_vars

\* C24 witness: the loop ran on a buffer of two lines and left it empty.
C24_Witness ==
    /\ pc = "wait"
    /\ chunk_count = 2
    /\ Len(log) = 2
    /\ incomplete = <<>>
    /\ pos = Len(body)

====
